---- MODULE Spec2Model ----
(***************************************************************************)
(* HoloCubic firmware: setup(), loop(), IMU::init, IMU::update,            *)
(* encoder_init / encoder_read and the (commented-out) animation block of  *)
(* loop(), as one state machine.  One step is one statement of setup() or  *)
(* loop(); the firmware is single threaded, so every call runs to          *)
(* completion inside its step.                                             *)
(***************************************************************************)
EXTENDS Integers, Sequences, FiniteSets, TLC

\* ------------------------------------------------------------------ bounds
MaxTime == 1300          \* the clock stops advancing here
MaxReads == 2            \* read_cb calls made by one lv_task_handler() call
MaxFileSize == 1025      \* largest file handed to readBinFromSd (bytes)
MaxTextLen == 4          \* longest text file handed to readFileLine (chars)

\* ------------------------------------------------------- program constants
T == 3000                \* rotation threshold on ay
P == 10000               \* press threshold on ax
Interval == 200          \* loop() calls mpu.update(200)
FrameCount == 138        \* frame_id wraps at 138
Int16Mod == 65536        \* int16_t encoder_diff / data->enc_diff
Int16Half == 32768
PwmMax == 255            \* ledcWrite(..., (int)(duty * 255))
ChunkSize == 512         \* readBinFromSd reads at most 512 bytes at a time
PanelMax == 239          \* last pixel row / column of the 240 x 240 panel
DutyOne == 1000          \* duty 1.0 in thousandths

\* ------------------------------------------------------------ input sets
\* Time one lv_task_handler() call may take (ms): 200 makes the next update
\* arrive at exactly Interval after an accepted one, 201 just after it.
DtSet == {200, 201}
\* Raw accelerometer samples: both sides of each threshold and its edge.
AySet == {-3700, -3000, 0, 3000, 3500}
AxSet == {10000, 10001}
\* Backlight duties in thousandths: below 0, the range and its ends, above 1.
DutySet == {-200, 0, 1, 200, 999, 1000, 1001, 1500}
\* Frame indices an animation run is observed from: boot and near the wrap.
FrameStartSet == {0, 136}

VARIABLES
    phase,             \* "setup" or "loop"
    ip,                \* index of the next statement in SetupOrder / LoopOrder
    now,               \* millis()
    sensorAttached,    \* whether the MPU6050 acknowledges on the bus
    animEnabled,       \* whether the animation block of loop() is compiled in
    encoder_diff,      \* global encoder_diff
    encoder_state,     \* global encoder_state: "PR" or "REL"
    ax, ay,            \* IMU::ax, IMU::ay
    flag,              \* IMU::flag (the armed flag)
    last_update_time,  \* IMU::last_update_time
    frame_id,          \* global frame_id
    \* ---- observers (history of what the code did) ----
    last_op,           \* the statement executed last
    busRead,           \* the last step performed an I2C transaction
    reads,             \* data returned by each encoder_read of the last routine
    consumedSum,       \* sum of enc_diff over all encoder_read calls so far
    emittedSum,        \* net sum of the +1/-1 events update has emitted
    iter,              \* statements executed so far in this loop iteration
    lastIter,          \* statements executed by the last complete iteration
    epZone, epActive, epTicks, epResult,   \* threshold-crossing episodes
    lastEv,            \* rotation event of the last accepted update
    feed, scenEv, scenFlag0,               \* scripted sensor samples
    lastReq, lastOk, prevFailed,           \* animation tick requests
    setupLog,          \* statements of setup() completed so far
    \* ---- drivers ----
    pwm,               \* value last written by ledcWrite (-1: none yet)
    lastDuty,          \* duty (in thousandths) of the last setBackLight call
    drv                \* the last storage / display driver call and what
                       \* it did

vars == <<phase, ip, now, sensorAttached, animEnabled, encoder_diff,
          encoder_state, ax, ay, flag, last_update_time, frame_id,
          last_op, busRead, reads, consumedSum, emittedSum, iter, lastIter,
          epZone, epActive, epTicks, epResult, lastEv, feed, scenEv,
          scenFlag0,
          lastReq, lastOk, prevFailed, setupLog,
          pwm, lastDuty, drv>>

progVars == <<encoder_diff, encoder_state, ax, ay, flag, last_update_time>>
epVars == <<epZone, epActive, epTicks, epResult, lastEv>>
scenVars == <<feed, scenEv, scenFlag0>>
animVars == <<frame_id, lastReq, lastOk, prevFailed>>
drvVars == <<pwm, lastDuty, drv>>

\* The episode observer's "no episode completed by the last update".
NoEpisode == <<>>

\* ------------------------------------------------------------ arithmetic
\* Two's-complement wrap of an int16_t.
Wrap16(x) == ((x + Int16Half) % Int16Mod) - Int16Half

ElapsedInclusive(t, last, interval) ==
    IF t >= last THEN (t - last) >= interval ELSE TRUE
\* millis() - last_update_time > interval, in 32-bit unsigned arithmetic:
\* for t < last the difference wraps to t - last + 2^32, which exceeds any
\* int interval.
Elapsed(t, last, interval) ==
    IF t >= last THEN (t - last) > interval ELSE TRUE

\* --------------------------------------------------- statement sequencing
SetupOrderSwapped == <<"display", "imu", "indev", "rgb", "storage", "gui">>
\* setup(): screen.init + setBackLight, lv_port_indev_init, mpu.init,
\* rgb.init, tf.init + lv_fs_if_init + readFileLine, lv_holo_cubic_gui.
SetupOrder == <<"display", "indev", "imu", "rgb", "storage", "gui">>

LoopOrderRenderLast == <<"update", "tail", "routine">>
LoopOrderSwapped == <<"update", "routine", "tail">>
\* loop(): screen.routine(); mpu.update(200); then println + animation block.
LoopOrder == <<"routine", "update", "tail">>

Stmt == IF phase = "setup" THEN SetupOrder[ip] ELSE LoopOrder[ip]

\* Control after the current statement returns.
Advance ==
    IF phase = "setup"
    THEN IF ip < Len(SetupOrder)
         THEN phase' = "setup" /\ ip' = ip + 1
         ELSE phase' = "loop" /\ ip' = 1
    ELSE phase' = "loop" /\ ip' = (IF ip < Len(LoopOrder) THEN ip + 1 ELSE 1)

\* The per-iteration record of executed statements.
IterStep(s) ==
    IF ip < Len(LoopOrder)
    THEN iter' = Append(iter, s) /\ lastIter' = lastIter
    ELSE iter' = <<>> /\ lastIter' = Append(iter, s)

\* ------------------------------------------------------- IMU::update parts
\* The rotation event of one accepted update: -1, +1 or 0 (none).
RotateStepUngated(y, f) == IF y > T THEN -1 ELSE IF y < -T THEN 1 ELSE 0
RotateStepSwapped(y, f) ==
    IF y > T /\ f # 0 THEN 1
    ELSE IF y < -T /\ f # 0 THEN -1
    ELSE 0

RotateStep(y, f) ==
    IF y > T /\ f # 0 THEN -1
    ELSE IF y < -T /\ f # 0 THEN 1
    ELSE 0

GestureFlagNoClear(y, f) == 1
\* The armed flag after one accepted update: cleared by a firing branch, set
\* by the final else, which is taken whenever neither firing branch is.
GestureFlag(y, f) ==
    IF y > T /\ f # 0 THEN 0
    ELSE IF y < -T /\ f # 0 THEN 0
    ELSE 1

PressStateGE(x) == IF x >= P THEN "PR" ELSE "REL"
\* encoder_state after the press test of an accepted update.
PressState(x) == IF x > P THEN "PR" ELSE "REL"

\* encoder_diff after update: encoder_diff-- / encoder_diff++ inside the gate.
UpdDiff(acc, y, f, diff) ==
    IF acc THEN Wrap16(diff + RotateStep(y, f)) ELSE diff

\* flag after update.
UpdFlag(acc, y, f) == IF acc THEN GestureFlag(y, f) ELSE f

UpdStateUngated(acc, x, st) == PressState(x)
\* encoder_state after update: the press test sits inside the gate.
UpdState(acc, x, st) == IF acc THEN PressState(x) ELSE st

\* last_update_time after update: millis() at the end of an accepted update.
UpdLast(acc, t, last) == IF acc THEN t ELSE last

\* Whether update performs the I2C read: getMotion6 precedes the gate.
UpdBusRead(acc) == TRUE

\* ----------------------------------------------------------- encoder_read
encoder_read_released(diff, st) ==
    [data |-> [enc_diff |-> Wrap16(diff), state |-> "REL"], diff |-> 0]
encoder_read_sign(diff, st) ==
    [data |-> [enc_diff |-> IF diff > 0 THEN 1 ELSE IF diff < 0 THEN -1 ELSE 0,
               state |-> st],
     diff |-> 0]
encoder_read_noclear(diff, st) ==
    [data |-> [enc_diff |-> Wrap16(diff), state |-> st], diff |-> diff]
\* data->enc_diff = encoder_diff; data->state = encoder_state; encoder_diff = 0
encoder_read(diff, st) ==
    [data |-> [enc_diff |-> Wrap16(diff), state |-> st], diff |-> 0]

\* n successive read_cb calls made by one lv_task_handler().
RECURSIVE RoutineReads(_, _, _)
RoutineReads(n, diff, st) ==
    IF n = 0 THEN [data |-> <<>>, diff |-> diff]
    ELSE LET r == encoder_read(diff, st)
             rest == RoutineReads(n - 1, r.diff, st)
         IN  [data |-> <<r.data>> \o rest.data, diff |-> rest.diff]

RECURSIVE SumDiff(_)
SumDiff(s) == IF s = <<>> THEN 0 ELSE Head(s).enc_diff + SumDiff(Tail(s))

\* ------------------------------------------------------------- animation
NextFrameIdNoWrap(id, ok) == id + 1
NextFrameIdRetry(id, ok) ==
    IF ~ok THEN id ELSE IF id + 1 = FrameCount THEN 0 ELSE id + 1
\* frame_id++ ; if (frame_id == 138) frame_id = 0 -- whatever the load did.
NextFrameId(id, ok) == IF id + 1 = FrameCount THEN 0 ELSE id + 1

\* -------------------------------------------------------------- observers
Zone(y) == IF y > T THEN "hi" ELSE IF y < -T THEN "lo" ELSE "mid"

\* The lateral samples of the end-to-end scenario and the events it expects.
Scenario == <<0, 3500, 3600, 0, -3700, 0>>
ScenarioEvents == <<0, -1, 0, 0, 1, 0>>

\* Episode observer, on an accepted update with sample y emitting ev: an
\* episode opens when ay leaves the neutral band, runs while ay stays on the
\* same side, and completes when ay is back in the neutral band.
EpisodeStep(y, ev) ==
    LET z == Zone(y) IN
    /\ epZone' = z
    /\ lastEv' = ev
    /\ IF z = "mid"
       THEN /\ epResult' = IF epActive THEN <<epZone, epTicks>> ELSE NoEpisode
            /\ epActive' = FALSE
            /\ epTicks' = 0
       ELSE IF epZone = "mid"
       THEN epActive' = TRUE /\ epTicks' = ev /\ epResult' = NoEpisode
       ELSE IF epActive /\ z = epZone
       THEN epActive' = TRUE /\ epTicks' = epTicks + ev /\ epResult' = NoEpisode
       ELSE epActive' = FALSE /\ epTicks' = 0 /\ epResult' = NoEpisode

\* The samples the sensor can return to one update: the next scripted sample
\* while a script is being fed, any sample otherwise.
SensorAy == IF feed # <<>> THEN {Head(feed)} ELSE AySet

\* Scenario observer, on an accepted update emitting ev: a scripted sample is
\* used up and the event it produced is recorded.
ScenarioStep(ev) ==
    IF feed # <<>>
    THEN /\ feed' = Tail(feed)
         /\ scenEv' = Append(scenEv, ev)
         /\ scenFlag0' = IF scenEv = <<>> THEN flag ELSE scenFlag0
    ELSE UNCHANGED scenVars

\* ------------------------------------------------------------- backlight
\* Duties are in thousandths: 200 is the 0.2 that setup() passes.
BootDuty == 200

\* constrain(amt, low, high)
constrain(amt, low, high) ==
    IF amt < low THEN low ELSE IF amt > high THEN high ELSE amt

setBackLightUnclamped(duty) == ((DutyOne - duty) * PwmMax) \div DutyOne
\* Display::setBackLight: the value handed to ledcWrite, (int)(duty * 255)
\* after duty = constrain(duty, 0, 1); duty = 1 - duty.
setBackLight(duty) ==
    ((DutyOne - constrain(duty, 0, DutyOne)) * PwmMax) \div DutyOne

\* "No call made yet" for the driver observers.
NoCall == [op |-> "none"]

\* --------------------------------------------------------------- storage
\* The read requests of readBinFromSd's while (len) loop, from bufPtr on:
\* file.read(bufPtr, toRead) with toRead = min(len, 512).
ChunksUncapped(len, bufPtr) ==
    IF len = 0 THEN <<>> ELSE <<[off |-> bufPtr, n |-> len]>>

RECURSIVE Chunks(_, _)
Chunks(len, bufPtr) ==
    IF len = 0 THEN <<>>
    ELSE LET toRead == IF len > ChunkSize THEN ChunkSize ELSE len
         IN  <<[off |-> bufPtr, n |-> toRead]>>
                 \o Chunks(len - toRead, bufPtr + toRead)

\* Bytes file.read delivered over all requests when request number shortAt
\* (0: none) returned one byte fewer than asked.
Delivered(reqs, shortAt) ==
    LET Got(i) == IF i = shortAt THEN reqs[i].n - 1 ELSE reqs[i].n
        RECURSIVE Sum(_)
        Sum(i) == IF i = 0 THEN 0 ELSE Got(i) + Sum(i - 1)
    IN  Sum(Len(reqs))

readBinFromSd_nocheck(exists, size, shortAt) ==
    [op |-> "readBin", exists |-> exists, size |-> size,
     reqs |-> Chunks(size, 0),
     got |-> Delivered(Chunks(size, 0), shortAt),
     log |-> "success", logBytes |-> size, ret |-> "void"]
\* SdCard::readBinFromSd(path, buf): what one call does to buf, prints and
\* returns, for a file that exists or not, of the given size, whose read
\* number shortAt comes back short.  The return value of file.read is
\* dropped and the function returns void.
readBinFromSd(exists, size, shortAt) ==
    IF exists
    THEN [op |-> "readBin", exists |-> TRUE, size |-> size,
          reqs |-> Chunks(size, 0),
          got |-> Delivered(Chunks(size, 0), shortAt),
          log |-> "success", logBytes |-> size, ret |-> "void"]
    ELSE [op |-> "readBin", exists |-> FALSE, size |-> 0,
          reqs |-> <<>>, got |-> 0,
          log |-> "open_failed", logBytes |-> 0, ret |-> "void"]

\* Results a FatFs call can return.
FResults == {"FR_OK", "FR_NO_FILE", "FR_DISK_ERR"}

fs_open_always_ok(fres) ==
    [op |-> "fs_open", fres |-> fres, ret |-> "LV_FS_RES_OK",
     seeked |-> (fres = "FR_OK")]
\* fs_open: f_open, then f_lseek(0) and LV_FS_RES_OK, or LV_FS_RES_UNKNOWN.
fs_open(fres) ==
    [op |-> "fs_open", fres |-> fres,
     ret |-> IF fres = "FR_OK" THEN "LV_FS_RES_OK" ELSE "LV_FS_RES_UNKNOWN",
     seeked |-> (fres = "FR_OK")]

\* fs_read: f_read stores the bytes read in *br; only FRESULT decides the
\* return value.
fs_read(fres, btr, br) ==
    [op |-> "fs_read", fres |-> fres, btr |-> btr, br |-> br,
     ret |-> IF fres = "FR_OK" THEN "LV_FS_RES_OK" ELSE "LV_FS_RES_UNKNOWN"]

\* fs_write: only FRESULT decides the return value.
fs_write(fres, btw, bw) ==
    [op |-> "fs_write", fres |-> fres, btw |-> btw, bw |-> bw,
     ret |-> IF fres = "FR_OK" THEN "LV_FS_RES_OK" ELSE "LV_FS_RES_UNKNOWN"]

\* fs_close: the result of f_close is dropped.
fs_close(fres) == [op |-> "fs_close", fres |-> fres, ret |-> "LV_FS_RES_OK"]

\* fs_seek: the result of f_lseek is dropped.
fs_seek(fres) == [op |-> "fs_seek", fres |-> fres, ret |-> "LV_FS_RES_OK"]

\* fs_trunc: f_sync, then f_truncate, both results dropped; fres is the
\* first failure of the two, if any.
fs_trunc(syncRes, truncRes) ==
    [op |-> "fs_trunc",
     fres |-> IF syncRes # "FR_OK" THEN syncRes ELSE truncRes,
     ret |-> "LV_FS_RES_OK"]

\* fs_rename
fs_rename(fres) ==
    [op |-> "fs_rename", fres |-> fres,
     ret |-> IF fres = "FR_OK" THEN "LV_FS_RES_OK" ELSE "LV_FS_RES_UNKNOWN"]

\* fs_dir_open
fs_dir_open(fres) ==
    [op |-> "fs_dir_open", fres |-> fres,
     ret |-> IF fres = "FR_OK" THEN "LV_FS_RES_OK" ELSE "LV_FS_RES_UNKNOWN"]

\* The callbacks registered with LVGL that wrap a FatFs call.
FsOps == {"fs_open", "fs_read", "fs_write", "fs_seek", "fs_close",
          "fs_trunc", "fs_rename", "fs_dir_open"}

\* ---------------------------------------------------------- readFileLine
\* Characters of a text file: a letter, a blank, the newline.
Chars == {"a", " ", "\n"}
Texts == UNION {[1..k -> Chars] : k \in 0..MaxTextLen}
\* Line numbers asked for.
LineNums == 1..3

\* String::trim(): leading and trailing white space removed.
RECURSIVE trim(_)
trim(str) ==
    IF str = <<>> THEN <<>>
    ELSE IF Head(str) \in {" ", "\n"} THEN trim(Tail(str))
    ELSE IF str[Len(str)] \in {" ", "\n"}
         THEN trim(SubSeq(str, 1, Len(str) - 1))
    ELSE str

\* The while (file.available()) loop of readFileLine from character i on,
\* with num lines still to find and line the characters stored in buf.
RECURSIVE ScanLine(_, _, _, _)
ScanLine(text, i, num, line) ==
    IF i > Len(text) THEN [kind |-> "error_parameter", s |-> <<>>]
    ELSE IF text[i] = "\n"
         THEN IF num - 1 = 0
              THEN [kind |-> "line", s |-> trim(line)]
              ELSE ScanLine(text, i + 1, num - 1, line)
    ELSE IF num = 1 THEN ScanLine(text, i + 1, num, Append(line, text[i]))
    ELSE ScanLine(text, i + 1, num, line)

\* SdCard::readFileLine(path, num): the String it returns, which is the
\* line, or one of the two messages "Failed to open file for reading" and
\* "error parameter!" (kind tells them apart here; the code returns all
\* three as a String).
readFileLine(exists, text, num) ==
    [op |-> "readFileLine", exists |-> exists, text |-> text, num |-> num,
     ret |-> IF exists THEN ScanLine(text, 1, num, <<>>)
             ELSE [kind |-> "open_failed", s |-> <<>>]]

\* --------------------------------------------------------------- display
\* Coordinates a flushed area is built from.
CoordSet == {0, 100, PanelMax}

my_disp_flush_early_ready(x1, y1, x2, y2) ==
    LET w == x2 - x1 + 1
        h == y2 - y1 + 1
    IN  [op |-> "flush",
         calls |-> << <<"startWrite">>,
                      <<"setAddrWindow", x1, y1, w, h>>,
                      <<"lv_disp_flush_ready">>,
                      <<"pushColors", w * h>>,
                      <<"endWrite">> >>]
\* my_disp_flush(disp, area, color_p): the calls it makes, in order.
my_disp_flush(x1, y1, x2, y2) ==
    LET w == x2 - x1 + 1
        h == y2 - y1 + 1
    IN  [op |-> "flush",
         calls |-> << <<"startWrite">>,
                      <<"setAddrWindow", x1, y1, w, h>>,
                      <<"pushColors", w * h>>,
                      <<"endWrite">>,
                      <<"lv_disp_flush_ready">> >>]

\* ------------------------------------------------------------------- Init
Init ==
    /\ phase = "setup" /\ ip = 1 /\ now = 0
    /\ sensorAttached \in BOOLEAN
    /\ animEnabled \in BOOLEAN
    /\ encoder_diff = 0 /\ encoder_state = "REL"
    /\ ax = 0 /\ ay = 0
    /\ flag \in {0, 1}
    /\ last_update_time = 0
    /\ frame_id = 0
    /\ last_op = "boot" /\ busRead = FALSE /\ reads = <<>>
    /\ consumedSum = 0 /\ emittedSum = 0
    /\ iter = <<>> /\ lastIter = <<>>
    /\ epZone = "none" /\ epActive = FALSE /\ epTicks = 0 /\ epResult = NoEpisode
    /\ lastEv = 0
    /\ feed \in {<<>>, Scenario} /\ scenEv = <<>> /\ scenFlag0 = 0
    /\ lastReq = -1 /\ lastOk = TRUE /\ prevFailed = FALSE
    /\ setupLog = <<>>
    /\ pwm = -1 /\ lastDuty = 0
    /\ drv = NoCall

SetupIndevPressed ==
    /\ phase = "setup" /\ Stmt = "indev"
    /\ encoder_diff' = 0 /\ encoder_state' = "PR"
    /\ consumedSum' = consumedSum
    /\ Advance /\ last_op' = "indev" /\ busRead' = FALSE
    /\ setupLog' = Append(setupLog, "indev")
    /\ UNCHANGED <<now, sensorAttached, animEnabled, ax, ay, flag,
                   last_update_time, reads, emittedSum, iter, lastIter>>
    /\ UNCHANGED <<epVars, scenVars, animVars, drvVars>>
\* ------------------------------------------------------------------ setup
\* lv_port_indev_init(): encoder_init() clears the encoder globals.
SetupIndev ==
    /\ phase = "setup" /\ Stmt = "indev"
    /\ encoder_diff' = 0 /\ encoder_state' = "REL"
    /\ consumedSum' = consumedSum
    /\ Advance /\ last_op' = "indev" /\ busRead' = FALSE
    /\ setupLog' = Append(setupLog, "indev")
    /\ UNCHANGED <<now, sensorAttached, animEnabled, ax, ay, flag,
                   last_update_time, reads, emittedSum, iter, lastIter>>
    /\ UNCHANGED <<epVars, scenVars, animVars, drvVars>>

ImuInitGiveUp ==
    /\ phase = "setup" /\ Stmt = "imu"
    /\ Advance /\ last_op' = "imu" /\ busRead' = TRUE
    /\ setupLog' = Append(setupLog, "imu")
    /\ UNCHANGED <<now, sensorAttached, animEnabled, progVars, reads,
                   consumedSum, emittedSum, iter, lastIter>>
    /\ UNCHANGED <<epVars, scenVars, animVars, drvVars>>

\* IMU::init(): testConnection() answered; imu.initialize(); return.
ImuInitAck ==
    /\ phase = "setup" /\ Stmt = "imu"
    /\ sensorAttached
    /\ Advance /\ last_op' = "imu" /\ busRead' = TRUE
    /\ setupLog' = Append(setupLog, "imu")
    /\ UNCHANGED <<now, sensorAttached, animEnabled, progVars, reads,
                   consumedSum, emittedSum, iter, lastIter>>
    /\ UNCHANGED <<epVars, scenVars, animVars, drvVars>>

\* IMU::init(): while (!imu.testConnection()); -- one more turn of the spin.
ImuInitSpin ==
    /\ phase = "setup" /\ Stmt = "imu"
    /\ ~sensorAttached
    /\ UNCHANGED vars

\* screen.init(); screen.setBackLight(0.2);
SetupDisplay ==
    /\ phase = "setup" /\ Stmt = "display"
    /\ lastDuty' = BootDuty /\ pwm' = setBackLight(BootDuty)
    /\ Advance /\ last_op' = "display" /\ busRead' = FALSE
    /\ setupLog' = Append(setupLog, "display")
    /\ UNCHANGED <<now, sensorAttached, animEnabled, progVars, reads,
                   consumedSum, emittedSum, iter, lastIter>>
    /\ UNCHANGED <<epVars, scenVars, animVars, drv>>

\* The other statements of setup(): rgb, storage, gui.
SetupOther ==
    /\ phase = "setup" /\ Stmt \in {"rgb", "storage", "gui"}
    /\ Advance /\ last_op' = Stmt /\ busRead' = FALSE
    /\ setupLog' = Append(setupLog, Stmt)
    /\ UNCHANGED <<now, sensorAttached, animEnabled, progVars, reads,
                   consumedSum, emittedSum, iter, lastIter>>
    /\ UNCHANGED <<epVars, scenVars, animVars, drvVars>>

\* ------------------------------------------------------------------- loop
\* screen.routine(): lv_task_handler(), which polls the encoder read_cb.
LoopRoutine ==
    /\ phase = "loop" /\ Stmt = "routine"
    /\ \E dt \in DtSet, n \in 0..MaxReads :
          LET r == RoutineReads(n, encoder_diff, encoder_state) IN
          /\ now + dt <= MaxTime
          /\ now' = now + dt
          /\ reads' = r.data
          /\ encoder_diff' = r.diff
          /\ consumedSum' = consumedSum + SumDiff(r.data)
    /\ Advance /\ IterStep("routine")
    /\ last_op' = "routine" /\ busRead' = FALSE
    /\ UNCHANGED <<sensorAttached, animEnabled, encoder_state, ax, ay, flag,
                   last_update_time, emittedSum>>
    /\ UNCHANGED <<epVars, scenVars, animVars, setupLog, drvVars>>

\* mpu.update(200)
LoopUpdate ==
    /\ phase = "loop" /\ Stmt = "update"
    /\ \E x \in AxSet, y \in SensorAy :
          LET acc == Elapsed(now, last_update_time, Interval)
              ev == UpdDiff(acc, y, flag, encoder_diff) - encoder_diff
          IN
          /\ ax' = x /\ ay' = y
          /\ busRead' = UpdBusRead(acc)
          /\ encoder_diff' = UpdDiff(acc, y, flag, encoder_diff)
          /\ flag' = UpdFlag(acc, y, flag)
          /\ encoder_state' = UpdState(acc, x, encoder_state)
          /\ now' = now
          /\ last_update_time' = UpdLast(acc, now, last_update_time)
          /\ emittedSum' = emittedSum + ev
          /\ last_op' = IF acc THEN "update_accepted" ELSE "update_rejected"
          /\ IF acc
             THEN EpisodeStep(y, ev) /\ ScenarioStep(ev)
             ELSE UNCHANGED <<epVars, scenVars>>
    /\ Advance /\ IterStep("update")
    /\ reads' = <<>>
    /\ UNCHANGED <<sensorAttached, animEnabled, consumedSum, animVars,
                   setupLog, drvVars>>

\* Serial.println, then the animation block (when compiled in): request
\* frame frame_id, advance frame_id; the load succeeds or fails.
LoopTail ==
    /\ phase = "loop" /\ Stmt = "tail"
    /\ IF animEnabled
       THEN \E ok \in BOOLEAN :
               /\ lastReq' = frame_id
               /\ lastOk' = ok
               /\ prevFailed' = (lastReq # -1 /\ ~lastOk)
               /\ frame_id' = NextFrameId(frame_id, ok)
               /\ last_op' = "anim"
       ELSE UNCHANGED animVars /\ last_op' = "println"
    /\ Advance /\ IterStep("tail")
    /\ busRead' = FALSE
    /\ UNCHANGED <<now, sensorAttached, animEnabled, progVars, reads,
                   consumedSum, emittedSum>>
    /\ UNCHANGED <<epVars, scenVars, setupLog, drvVars>>

Next ==
    \/ SetupDisplay
    \/ SetupIndev
    \/ ImuInitAck
    \/ ImuInitSpin
    \/ SetupOther
    \/ LoopRoutine
    \/ LoopUpdate
    \/ LoopTail

Spec == Init /\ [][Next]_vars

\* ---------------------------------------------------------------- drivers
\* The driver entry points, called with any arguments.  The firmware has one
\* thread, so a call starts only when no other call is outstanding (drv is
\* NoCall) and its outcome stays in drv until the call returns.
loopVars == <<phase, ip, now, sensorAttached, animEnabled, progVars, frame_id,
              last_op, busRead, reads, consumedSum, emittedSum, iter,
              lastIter, epVars, scenVars, lastReq, lastOk, prevFailed,
              setupLog>>

\* tf.readBinFromSd(path, buf)
ReadBinCall ==
    /\ drv = NoCall
    /\ \E exists \in BOOLEAN, size \in 0..MaxFileSize, shortAt \in 0..3 :
          drv' = readBinFromSd(exists, size, shortAt)
    /\ UNCHANGED <<loopVars, pwm, lastDuty>>

\* LVGL calls the registered open_cb.
FsOpenCall ==
    /\ drv = NoCall
    /\ \E fres \in FResults : drv' = fs_open(fres)
    /\ UNCHANGED <<loopVars, pwm, lastDuty>>

\* LVGL calls the registered read_cb; f_read may deliver fewer bytes.
FsReadCall ==
    /\ drv = NoCall
    /\ \E fres \in FResults, btr \in {0, 1, ChunkSize}, short \in {0, 1} :
          drv' = fs_read(fres, btr,
                         IF fres = "FR_OK" /\ btr > 0 THEN btr - short ELSE 0)
    /\ UNCHANGED <<loopVars, pwm, lastDuty>>

\* LVGL calls the registered write_cb.
FsWriteCall ==
    /\ drv = NoCall
    /\ \E fres \in FResults, btw \in {0, ChunkSize}, short \in {0, 1} :
          drv' = fs_write(fres, btw,
                          IF fres = "FR_OK" /\ btw > 0 THEN btw - short ELSE 0)
    /\ UNCHANGED <<loopVars, pwm, lastDuty>>

\* LVGL calls the registered seek_cb.
FsSeekCall ==
    /\ drv = NoCall
    /\ \E fres \in FResults : drv' = fs_seek(fres)
    /\ UNCHANGED <<loopVars, pwm, lastDuty>>

\* LVGL calls the registered close_cb.
FsCloseCall ==
    /\ drv = NoCall
    /\ \E fres \in FResults : drv' = fs_close(fres)
    /\ UNCHANGED <<loopVars, pwm, lastDuty>>

\* LVGL calls the registered trunc_cb.
FsTruncCall ==
    /\ drv = NoCall
    /\ \E syncRes \in FResults, truncRes \in FResults :
          drv' = fs_trunc(syncRes, truncRes)
    /\ UNCHANGED <<loopVars, pwm, lastDuty>>

\* LVGL calls the registered rename_cb.
FsRenameCall ==
    /\ drv = NoCall
    /\ \E fres \in FResults : drv' = fs_rename(fres)
    /\ UNCHANGED <<loopVars, pwm, lastDuty>>

\* LVGL calls the registered dir_open_cb.
FsDirOpenCall ==
    /\ drv = NoCall
    /\ \E fres \in FResults : drv' = fs_dir_open(fres)
    /\ UNCHANGED <<loopVars, pwm, lastDuty>>

\* tf.readFileLine(path, num)
ReadFileLineCall ==
    /\ drv = NoCall
    /\ \E exists \in BOOLEAN, text \in Texts, num \in LineNums :
          drv' = readFileLine(exists, text, num)
    /\ UNCHANGED <<loopVars, pwm, lastDuty>>

\* LVGL calls the registered flush_cb with a well-formed area.
FlushCall ==
    /\ drv = NoCall
    /\ \E x1 \in CoordSet, y1 \in CoordSet, x2 \in CoordSet, y2 \in CoordSet :
          /\ x1 <= x2 /\ y1 <= y2
          /\ drv' = my_disp_flush(x1, y1, x2, y2)
    /\ UNCHANGED <<loopVars, pwm, lastDuty>>

\* screen.setBackLight(duty)
BackLightCall ==
    /\ drv = NoCall
    /\ \E duty \in DutySet :
          lastDuty' = duty /\ pwm' = setBackLight(duty)
    /\ drv' = [op |-> "setBackLight"]
    /\ UNCHANGED loopVars

\* The outstanding call returns to its caller.
DrvReturn ==
    /\ drv # NoCall
    /\ drv' = NoCall
    /\ UNCHANGED <<loopVars, pwm, lastDuty>>

DrvInit ==
    /\ Init
    /\ sensorAttached /\ ~animEnabled /\ flag = 1 /\ feed = <<>>

DrvNext ==
    \/ ReadBinCall
    \/ FsOpenCall
    \/ FsReadCall
    \/ FsWriteCall
    \/ FsSeekCall
    \/ FsCloseCall
    \/ FsTruncCall
    \/ FsRenameCall
    \/ FsDirOpenCall
    \/ ReadFileLineCall
    \/ FlushCall
    \/ BackLightCall
    \/ DrvReturn

DrvSpec == DrvInit /\ [][DrvNext]_vars

\* -------------------------------------------------------- animation runs
\* The main loop of the build with the animation block, observed from the
\* start of an iteration at which frame_id has reached a value of
\* FrameStartSet (the clock is counted from the last accepted update).
AnimInit ==
    /\ phase = "loop" /\ ip = 1 /\ now = 0
    /\ sensorAttached = TRUE /\ animEnabled = TRUE
    /\ encoder_diff = 0 /\ encoder_state = "REL"
    /\ ax = 0 /\ ay = 0 /\ flag = 1 /\ last_update_time = 0
    /\ frame_id \in FrameStartSet
    /\ last_op = "anim" /\ busRead = FALSE /\ reads = <<>>
    /\ consumedSum = 0 /\ emittedSum = 0
    /\ iter = <<>> /\ lastIter = <<>>
    /\ epZone = "mid" /\ epActive = FALSE /\ epTicks = 0
    /\ epResult = NoEpisode /\ lastEv = 0
    /\ feed = <<>> /\ scenEv = <<>> /\ scenFlag0 = 0
    /\ lastReq = -1 /\ lastOk = TRUE /\ prevFailed = FALSE
    /\ setupLog = SetupOrder
    /\ pwm = setBackLight(BootDuty) /\ lastDuty = BootDuty
    /\ drv = NoCall

AnimNext ==
    \/ LoopRoutine
    \/ LoopUpdate
    \/ LoopTail

AnimSpec == AnimInit /\ [][AnimNext]_vars

\* The single thread keeps executing whenever it can change the state.
FairSpec == Spec /\ WF_vars(Next)

TypeOK ==
    /\ phase \in {"setup", "loop"}
    /\ flag \in {0, 1}
    /\ encoder_state \in {"PR", "REL"}
    /\ now \in 0..MaxTime + 1
    /\ frame_id \in 0..(FrameCount - 1)

\* ================================================================ claims

\* C1 (as claimed): every episode in which ay leaves the neutral band to one
\* side, stays there for any number of accepted updates and returns to the
\* neutral band changes rotationDelta by exactly one tick: -1 above +T, +1
\* below -T.
C1_OneTickPerEpisode ==
    epResult # NoEpisode =>
        /\ epResult[1] = "hi" => epResult[2] = -1
        /\ epResult[1] = "lo" => epResult[2] = 1

\* C2 (as claimed): once a rotation event has fired and cleared the armed
\* flag, the flag goes back to true only on an accepted update whose ay lies
\* in the neutral band [-T, T].  (After an accepted update the flag is 0 only
\* if that update fired.)
C2_RearmOnlyInNeutral ==
    [][(flag = 0 /\ epZone # "none" /\ flag' = 1) =>
          (last_op' = "update_accepted" /\ Zone(ay') = "mid")]_vars

\* C3: no rotation event is lost or delivered twice: what all encoder_read
\* calls returned so far plus what is pending equals the net sum of the
\* changes update made to rotationDelta.
C3_NoEventLostOrDuplicated == consumedSum + encoder_diff = emittedSum

\* C3 witness: events were consumed earlier and two more coalesced since.
C3_Witness == consumedSum # 0 /\ encoder_diff \in {-2, 2}

\* C4: a consume that immediately follows a consume (no update call in
\* between) returns rotationDelta 0.
C4_SecondConsumeZero == \A i \in 2..Len(reads) : reads[i].enc_diff = 0

\* C4 witness: two consumes in a row, the first of which returned an event.
C4_Witness == Len(reads) >= 2 /\ reads[1].enc_diff # 0

\* C5: fed to consecutive accepted updates, ay = [0, 3500, 3600, 0, -3700, 0]
\* yields the events [none, -1, none, none, +1, none], whatever the armed
\* flag was at the start.
C5_ScenarioEvents == scenEv = SubSeq(ScenarioEvents, 1, Len(scenEv))

\* C5 witness: the whole scenario has run, started with the flag disarmed.
C5_Witness == Len(scenEv) = Len(Scenario) /\ feed = <<>> /\ scenFlag0 = 0

\* C6: an update that arrives before the interval has elapsed leaves
\* rotationDelta, buttonState, the armed flag and the timestamp unchanged.
C6_EarlyUpdateNoOp ==
    [][last_op' = "update_rejected" =>
          UNCHANGED <<encoder_diff, encoder_state, flag, last_update_time>>]_vars

\* C6 witness: a rejected update whose samples would have fired a rotation
\* and pressed the button had it been accepted.
C6_Witness ==
    /\ last_op = "update_rejected"
    /\ ay > T /\ flag = 1 /\ ax > P /\ encoder_state = "REL"

\* C7 (as claimed): an update call made before the interval has elapsed
\* performs no sensor bus transaction.
C7_NoBusReadBeforeInterval == last_op = "update_rejected" => ~busRead

\* C8: in every loop iteration render servicing runs exactly once, first,
\* before the sensor update and the animation work, whatever earlier
\* iterations did.
C8_RenderFirstEveryIteration ==
    /\ iter \in {<<>>, <<"routine">>, <<"routine", "update">>}
    /\ lastIter \in {<<>>, <<"routine", "update", "tail">>}

\* C8 witness: render servicing has run in the iteration that follows one
\* with an accepted sensor update and a failed frame load.
C8_Witness ==
    /\ iter = <<"routine">> /\ lastIter # <<>>
    /\ last_update_time > 0 /\ lastReq # -1 /\ ~lastOk

\* C9 (as claimed): sensor initialization always terminates, so the main
\* loop is eventually reached even when the sensor never acknowledges.
C9_InitAlwaysTerminates == <>(phase = "loop")

\* C9 (amended): sensor initialization terminates exactly when the sensor
\* acknowledges: without an acknowledging sensor setup never gets past
\* IMU::init, with one the main loop is reached.
C9_InitTerminatesIffSensorAcks ==
    /\ [](~sensorAttached =>
            (phase = "setup" /\ Stmt \in {"display", "indev", "imu"}))
    /\ (sensorAttached ~> (phase = "loop"))

\* C9 witness: IMU::init is spinning on a sensor that does not acknowledge.
C9_Witness ==
    ~sensorAttached /\ phase = "setup" /\ Stmt = "imu" /\ last_op = "indev"

C12_ReportsNotFound ==
    /\ (drv.op = "readBin" /\ ~drv.exists) => drv.ret = "NotFound"
    /\ (drv.op = "fs_open" /\ drv.fres = "FR_NO_FILE") =>
          drv.ret = "LV_FS_RES_NOT_EX"

\* C12 (amended): a frame load whose file cannot be opened issues no read,
\* writes nothing to the destination buffer and returns void, its only trace
\* being the open-failure line on the serial log; the LVGL open callback
\* returns LV_FS_RES_UNKNOWN for every FatFs failure, which differs from
\* LV_FS_RES_OK but does not say the file is missing, and does not seek.
C12_OpenFailureWritesNothing ==
    /\ (drv.op = "readBin" /\ ~drv.exists) =>
          /\ drv.reqs = <<>> /\ drv.got = 0
          /\ drv.ret = "void" /\ drv.log = "open_failed"
    /\ (drv.op = "fs_open" /\ drv.fres # "FR_OK") =>
          drv.ret = "LV_FS_RES_UNKNOWN" /\ ~drv.seeked

\* C12 witness: readBinFromSd has been called on a path that does not open.
C12_Witness == drv.op = "readBin" /\ ~drv.exists /\ drv.log = "open_failed"

\* C13: a frame load in which a storage read returned fewer bytes than
\* requested never reports a complete frame.
C13_ShortReadNotReportedComplete ==
    (drv.op = "readBin" /\ drv.exists /\ drv.got < drv.size) =>
        drv.log # "success"

\* C14: a load of an openable file of n bytes issues exactly ceil(n / 512)
\* read requests, each for 1..512 bytes, the first at offset 0, each next one
\* at the offset where the previous one ended, together n bytes; the loop
\* ends for every n (the request list is finite).
C14_BoundedChunks ==
    (drv.op = "readBin" /\ drv.exists) =>
        LET r == drv.reqs
            n == drv.size
        IN  /\ Len(r) = (n + 511) \div 512
            /\ \A i \in 1..Len(r) : r[i].n \in 1..512
            /\ Len(r) > 0 => r[1].off = 0 /\ r[Len(r)].off + r[Len(r)].n = n
            /\ \A i \in 1..(Len(r) - 1) : r[i + 1].off = r[i].off + r[i].n

\* C14 witness: a file of two full chunks and one byte was loaded in three
\* requests.
C14_Witness ==
    drv.op = "readBin" /\ drv.exists /\ drv.size = 1025 /\ Len(drv.reqs) = 3

\* C15: every flush call signals completion exactly once, as its last step
\* and after the end of the transfer bracket; the window setup and the pixel
\* push happen, in that order, strictly between startWrite and endWrite, and
\* the push is of exactly the pixels of the requested rectangle.
C15_FlushSignalsOnceAfterTransfer ==
    drv.op = "flush" =>
        LET c == drv.calls
            At(name) == {i \in 1..Len(c) : c[i][1] = name}
        IN  /\ \A name \in {"startWrite", "setAddrWindow", "pushColors",
                             "endWrite", "lv_disp_flush_ready"} :
                   Cardinality(At(name)) = 1
            /\ At("lv_disp_flush_ready") = {Len(c)}
            /\ \A b \in At("startWrite"), w \in At("setAddrWindow"),
                  q \in At("pushColors"), e \in At("endWrite"),
                  r \in At("lv_disp_flush_ready") :
                   /\ b < w /\ w < q /\ q < e /\ e < r
                   /\ c[q][2] = c[w][4] * c[w][5]

\* C15 witness: a flush of a rectangle smaller than the panel has run.
C15_Witness ==
    /\ drv.op = "flush"
    /\ drv.calls[2] = <<"setAddrWindow", 100, 0, 140, 101>>
    /\ drv.calls[3] = <<"pushColors", 14140>>

\* C16: startup runs display init, input device registration, sensor init
\* and storage init in exactly that order, and the main loop (render
\* servicing, sensor update) starts only after all four have completed.
C16_StartupOrder ==
    LET four == <<"display", "indev", "imu", "storage">>
        IsOfFour(x) == x \in {"display", "indev", "imu", "storage"}
        done == SelectSeq(setupLog, IsOfFour)
    IN  /\ Len(done) <= 4
        /\ done = SubSeq(four, 1, Len(done))
        /\ (phase = "loop" \/ iter # <<>> \/ lastIter # <<>> \/
            last_op \in {"routine", "update_accepted", "update_rejected"})
              => done = four

\* C16 witness: the first sensor update of the main loop has run.
C16_Witness ==
    /\ phase = "loop" /\ last_op = "update_accepted"
    /\ lastIter = <<>> /\ Len(setupLog) = 6

\* C17: after every accepted update the button state is PRESSED exactly
\* when that update's ax sample exceeds 10000, whatever ay, the armed flag,
\* a rotation event of the same update or the previous button state were.
C17_PressLevelTriggered ==
    last_op = "update_accepted" => (encoder_state = "PR" <=> ax > 10000)

\* C17 witness: an accepted update fired a rotation event and reported a
\* press in the same call.
C17_Witness ==
    /\ last_op = "update_accepted" /\ ax > P /\ encoder_state = "PR"
    /\ Zone(ay) # "mid" /\ flag = 0

\* C18: the backlight duty is clamped: every duty above 1 writes the PWM
\* value of duty 1, every duty below 0 the PWM value of duty 0, and the
\* value written always lies in 0..255.
C18_BackLightClamped ==
    drv.op = "setBackLight" =>
        /\ pwm \in 0..255
        /\ lastDuty > 1000 => pwm = setBackLight(1000) /\ pwm = 0
        /\ lastDuty < 0 => pwm = setBackLight(0) /\ pwm = 255

\* C18 witness: setBackLight was called with a duty of 1.5.
C18_Witness == drv.op = "setBackLight" /\ lastDuty = 1500 /\ pwm = 0

\* C19: an accepted update that starts with the armed flag false leaves
\* encoder_diff unchanged, whatever ay is.
C19_NoEventWhileDisarmed ==
    [][(last_op' = "update_accepted" /\ flag = 0) =>
          encoder_diff' = encoder_diff]_vars

\* C19 witness: an accepted update started disarmed with ay beyond a
\* threshold (it re-armed instead of firing).
C19_Witness ==
    last_op = "update_accepted" /\ Zone(ay) # "mid" /\ flag = 1

\* C20: encoder_read runs only inside render servicing, update runs only
\* after the render servicing of the same iteration has returned, and a
\* render servicing that consumes hands over exactly the encoder_diff it
\* found and leaves 0: no update falls between the read and the reset.
C20_ConsumeAtomicWithinRoutine ==
    [][/\ (reads' # reads /\ reads' # <<>>) =>
            /\ last_op' = "routine"
            /\ reads'[1].enc_diff = encoder_diff
            /\ encoder_diff' = 0
       /\ last_op' \in {"update_accepted", "update_rejected"} =>
            /\ iter = <<"routine">>
            /\ reads' = <<>>
       /\ encoder_diff' # encoder_diff =>
            last_op' \in {"routine", "update_accepted"}]_vars

\* C20 witness: an update has run after a render servicing that consumed a
\* rotation event.
C20_Witness ==
    /\ last_op \in {"update_accepted", "update_rejected"}
    /\ iter = <<"routine", "update">>
    /\ consumedSum # 0

\* C21: gesture evaluation is rate-limited: an update is accepted only when
\* strictly more than the interval has passed since the last accepted one
\* (at exactly the interval it is rejected), an accepted update stamps
\* last_update_time with the current time, and nothing else changes it.
C21_AcceptedUpdatesSpaced ==
    [][/\ (phase = "loop" /\ Stmt = "update") =>
            /\ last_op' = "update_accepted" <=> now - last_update_time > 200
            /\ last_op' = "update_accepted" => last_update_time' = now
            /\ last_op' # "update_accepted" =>
                  last_op' = "update_rejected" /\
                  last_update_time' = last_update_time
       /\ last_update_time' # last_update_time =>
            (phase = "loop" /\ Stmt = "update")]_vars

\* C21 witness: an update exactly 200 ms after an accepted one was rejected.
C21_Witness ==
    /\ last_op = "update_rejected" /\ last_update_time > 0
    /\ now - last_update_time = 200

\* C22: an accepted update changes encoder_diff by -1, 0 or +1, and the
\* accepted update that follows one that emitted a rotation event emits
\* none.
C22_NoConsecutiveEvents ==
    [][(phase = "loop" /\ Stmt = "update" /\ last_op' = "update_accepted") =>
          /\ lastEv' = encoder_diff' - encoder_diff
          /\ lastEv' \in {-1, 0, 1}
          /\ lastEv # 0 => lastEv' = 0]_vars

\* C22 witness: inside one excursion an accepted update emitted nothing
\* right after one that emitted an event, ay still beyond the threshold.
C22_Witness ==
    /\ last_op = "update_accepted" /\ lastEv = 0 /\ Zone(ay) # "mid"
    /\ epActive /\ epTicks # 0 /\ flag = 1

\* C23: a consume hands over the pending encoder_diff and the current
\* encoder_state, resets encoder_diff to 0 and leaves encoder_state, flag
\* and last_update_time as they were; encoder_state itself is written only
\* by accepted updates (and by registration).
C23_ConsumeFrame ==
    [][/\ (phase = "loop" /\ Stmt = "routine" /\ reads' # <<>>) =>
            /\ reads'[1] = [enc_diff |-> encoder_diff, state |-> encoder_state]
            /\ \A i \in 2..Len(reads') :
                  reads'[i] = [enc_diff |-> 0, state |-> encoder_state]
            /\ encoder_diff' = 0
            /\ encoder_state' = encoder_state
            /\ flag' = flag
            /\ last_update_time' = last_update_time
       /\ encoder_state' # encoder_state =>
            last_op' \in {"update_accepted", "indev"}]_vars

\* C23 witness: a consume returned a pending rotation event together with
\* a pressed button and left the button pressed.
C23_Witness ==
    /\ last_op = "routine" /\ reads # <<>>
    /\ reads[1].enc_diff # 0 /\ reads[1].state = "PR"
    /\ encoder_diff = 0 /\ encoder_state = "PR"

\* C24: registration leaves encoder_diff = 0 and RELEASED and runs when no
\* rotation event has been emitted yet, and every consume before the first
\* accepted update returns 0 and RELEASED.
C24_CleanBeforeFirstUpdate ==
    /\ last_op = "indev" =>
          /\ emittedSum = 0 /\ consumedSum = 0 /\ last_update_time = 0
          /\ encoder_diff = 0 /\ encoder_state = "REL"
    /\ (last_update_time = 0 /\ "indev" \in {setupLog[i] : i \in 1..Len(setupLog)}) =>
          /\ encoder_diff = 0 /\ encoder_state = "REL"
          /\ \A i \in 1..Len(reads) :
                reads[i] = [enc_diff |-> 0, state |-> "REL"]

\* C24 witness: a consume has run in the main loop before any update was
\* accepted.
C24_Witness ==
    /\ phase = "loop" /\ last_op = "routine" /\ Len(reads) >= 1
    /\ last_update_time = 0 /\ emittedSum = 0

\* C25: readFileLine(path, n), n >= 1, on an openable file returns line n
\* (trimmed) whenever the file has at least n lines, the last line counting
\* whether or not a newline ends it, and the error message only when n
\* exceeds the number of lines.
C25_ReturnsEveryLine ==
    (drv.op = "readFileLine" /\ drv.exists) =>
        LET RECURSIVE Split(_, _, _)
            Split(i, cur, acc) ==
                IF i > Len(drv.text)
                THEN IF cur = <<>> THEN acc ELSE Append(acc, cur)
                ELSE IF drv.text[i] = "\n"
                     THEN Split(i + 1, <<>>, Append(acc, cur))
                     ELSE Split(i + 1, Append(cur, drv.text[i]), acc)
            lines == Split(1, <<>>, <<>>)
        IN  IF drv.num <= Len(lines)
            THEN drv.ret = [kind |-> "line", s |-> trim(lines[drv.num])]
            ELSE drv.ret.kind = "error_parameter"

\* C26: every LVGL file-system callback returns LV_FS_RES_OK exactly when
\* the FatFs operation under it succeeded.
C26_NoFailureReportedOk ==
    drv.op \in FsOps => (drv.ret = "LV_FS_RES_OK" <=> drv.fres = "FR_OK")

====
